---------------------------- MODULE Spec2Model ----------------------------
(***************************************************************************)
(* Model of static/index.js: the keypress listener on the #query input and *)
(* the async function search(prompt), which clears #results, POSTs the     *)
(* prompt to /api/search, awaits the response and its JSON body, and       *)
(* renders the body's entries as one <ul> appended to #results.            *)
(*                                                                         *)
(* The browser runs every callback to completion, so each action below is  *)
(* one run of a handler or of one continuation of search between awaits.   *)
(***************************************************************************)
EXTENDS Naturals, Sequences, FiniteSets

VARIABLES
    queryValue,   \* query.value, the text of the #query input
    searches,     \* one record per invocation of search(), in call order
    issued,       \* the requests handed to fetch(), in call order
    results,      \* children of the #results element (`requests` in search)
    path,         \* the undeclared loop variable `path` (a global)
    rank,         \* the undeclared loop variable `rank` (a global)
    unhandled,    \* searches whose promise rejected (nobody handles it)
    shown,        \* history: per child of #results, the search and the parsed
                  \* body it was rendered from
    pressed,      \* history: query.value at each Enter keypress, in order
    lastEvent     \* history: the event whose callback ran last

vars == <<queryValue, searches, issued, results, shown, path, rank, unhandled,
          pressed, lastEvent>>

\* ------------------------------------------------------------- bounds
MaxSearches == 2     \* Enter keypresses explored
MaxEntries  == 2     \* entries of a response body explored

\* ---------------------------------------------------- JavaScript values
\* A string is the sequence of its characters, so that it can be iterated.
Undefined == [t |-> "undefined"]
Null      == [t |-> "null"]
Num(n)    == [t |-> "num", n |-> n]
Str(s)    == [t |-> "str", s |-> s]
Arr(a)    == [t |-> "arr", a |-> a]

Digit(d) == <<"0", "1", "2", "3", "4", "5", "6", "7", "8", "9">>[d + 1]

RECURSIVE NumToString(_)
NumToString(n) ==
    IF n < 10 THEN <<Digit(n)>>
    ELSE NumToString(n \div 10) \o <<Digit(n % 10)>>

\* ToString, as document.createTextNode applies it to its argument.
ToString(v) ==
    CASE v.t = "str"       -> v.s
      [] v.t = "num"       -> NumToString(v.n)
      [] v.t = "undefined" -> <<"u","n","d","e","f","i","n","e","d">>
      [] v.t = "null"      -> <<"n","u","l","l">>

\* The iteration protocol: arrays yield their elements, strings their
\* characters; anything else is not iterable (a TypeError).
IsIterable(v) == v.t \in {"arr", "str"}

Iterate(v) ==
    IF v.t = "arr" THEN v.a
    ELSE [i \in 1..Len(v.s) |-> Str(<<v.s[i]>>)]

NthOrUndefined(s, i) == IF i <= Len(s) THEN s[i] ELSE Undefined

\* ------------------------------------------------------ the environment
Keys   == {"Enter", "a"}          \* e.key of a keypress event
Values == {"", "a"}               \* texts the user can leave in the input

EntryA   == Arr(<<Str(<<"a">>), Num(3)>>)
EntryB   == Arr(<<Str(<<"b">>), Num(10)>>)
EntryBad == Num(7)                \* not destructurable: not iterable
Entries  == {EntryA, EntryB, EntryBad}

SeqsUpTo(S, n) == UNION {[1..k -> S] : k \in 0..n}

\* What response.json() can resolve to.
Bodies ==
    {Arr(a) : a \in SeqsUpTo(Entries, MaxEntries)}
        \cup {Null, Str(<<"a", "b">>)}

\* The bodies of the typing specification.
FewBodies == {Arr(<<>>), Arr(<<EntryA, EntryB>>), Arr(<<EntryBad>>)}

\* ------------------------------------------------------------ the DOM
\* <li><span>path</span> <span class="rank">rank</span></li>
Item(p, r) ==
    <<[tag |-> "span", class |-> "", text |-> ToString(p)],
      [tag |-> "#text", class |-> "", text |-> <<" ">>],
      [tag |-> "span", class |-> "rank", text |-> ToString(r)]>>

\* <ul class="result-list"> with its <li> children
NewList == [tag |-> "ul", class |-> "result-list", items |-> <<>>]

AppendChildOnce(parent, child) ==
    IF \E j \in 1..Len(parent.items) : parent.items[j] = child THEN parent
    ELSE [parent EXCEPT !.items = Append(@, child)]

\* parent.appendChild(child), on a <ul>
AppendChild(parent, child) == [parent EXCEPT !.items = Append(@, child)]

\* -------------------------------------------------------------- search
ClearResultsNot(children) == children

\* requests.innerHTML = ""
ClearResults(children) == <<>>

\* The init argument of fetch(): the request it describes.
Request(prompt) ==
    [method |-> "POST", url |-> "/api/search",
     contentType |-> "text/plain", body |-> prompt]

FetchUnlessEmpty(prompt) == IF prompt = "" THEN <<>> ELSE <<Request(prompt)>>

FetchWithRetry(prompt) == <<Request(prompt), Request(prompt)>>

\* What one call of search() hands to fetch().
Fetch(prompt) == <<Request(prompt)>>

DestructureAssignNot(g, entry) == g

\* [path, rank] = entry, on the globals g = [path, rank]
DestructureAssign(g, entry) ==
    LET it == Iterate(entry)
    IN  [path |-> NthOrUndefined(it, 1), rank |-> NthOrUndefined(it, 2)]

\* The for-of loop over the entries from the i-th on.  st holds the <ul>
\* being built, the globals path and rank, and whether the loop threw.
RECURSIVE Loop(_, _, _)
Loop(entries, i, st) ==
    IF i > Len(entries) THEN st
    ELSE IF ~IsIterable(entries[i]) THEN [st EXCEPT !.threw = TRUE]
    ELSE LET g == DestructureAssign([path |-> st.path, rank |-> st.rank],
                                    entries[i])
         IN  Loop(entries, i + 1,
                  [list  |-> AppendChild(st.list, Item(g.path, g.rank)),
                   path  |-> g.path,
                   rank  |-> g.rank,
                   threw |-> FALSE])

AppendResultAlways(children, list, threw) == Append(children, list)

\* requests.appendChild(resultList), reached only when the loop completed.
AppendResult(children, list, threw) ==
    IF threw THEN children ELSE Append(children, list)

IsEnterAny(k) == TRUE

\* if (e.key == "Enter")
IsEnter(k) == k = "Enter"

\* An event and, for the settling of response.json(), the value it gave.
Event(type, key, id, body) ==
    [type |-> type, key |-> key, id |-> id, body |-> body]
NoEvent == Event("load", "", 0, Undefined)

InFlight(s) == searches[s].pc \in {"awaitFetch", "awaitJson"}

Init ==
    /\ queryValue = ""
    /\ searches = <<>>
    /\ issued = <<>>
    /\ results = <<>>
    /\ shown = <<>>
    /\ path = Undefined
    /\ rank = Undefined
    /\ unhandled = {}
    /\ pressed = <<>>
    /\ lastEvent = NoEvent

\* The user edits the text of the input.
Input(v) ==
    /\ v # queryValue
    /\ queryValue' = v
    /\ lastEvent' = Event("input", "", 0, Undefined)
    /\ UNCHANGED <<searches, issued, results, shown, path, rank, unhandled,
                   pressed>>

\* search(prompt) up to its first await: clear, then fetch.
SearchCall(prompt) ==
    LET overlapping == \E t \in 1..Len(searches) : InFlight(t)
        others == [t \in 1..Len(searches) |->
                     IF InFlight(t) THEN [searches[t] EXCEPT !.overlap = TRUE]
                     ELSE searches[t]]
    IN  /\ results' = ClearResults(results)
        /\ shown' = <<>>
        /\ issued' = issued \o Fetch(prompt)
        /\ searches' = Append(others,
               [prompt  |-> prompt,
                pc      |-> "awaitFetch",
                trace   |-> <<"clear", "fetch">>,
                overlap |-> overlapping])

\* A keypress event on the input: the listener of lines 36-40.  At most
\* MaxSearches Enter keypresses are explored, and searches is capped.
KeyPress(k) ==
    /\ k = "Enter" => Len(pressed) < MaxSearches
    /\ pressed' = IF k = "Enter" THEN Append(pressed, queryValue) ELSE pressed
    /\ IF IsEnter(k)
         THEN /\ Len(searches) <= MaxSearches
              /\ SearchCall(queryValue)
         ELSE UNCHANGED <<searches, issued, results, shown>>
    /\ lastEvent' = Event("key", k, 0, Undefined)
    /\ UNCHANGED <<queryValue, path, rank, unhandled>>

\* fetch() resolves: search resumes, creates the <ul>, calls response.json().
FetchResolve(s) ==
    /\ searches[s].pc = "awaitFetch"
    /\ searches' = [searches EXCEPT ![s].pc = "awaitJson",
                                    ![s].trace = Append(@, "createList")]
    /\ lastEvent' = Event("fetchResolve", "", s, Undefined)
    /\ UNCHANGED <<queryValue, issued, results, shown, path, rank, unhandled,
                   pressed>>

\* fetch() rejects (network failure): the await throws inside search.
FetchReject(s) ==
    /\ searches[s].pc = "awaitFetch"
    /\ searches' = [searches EXCEPT ![s].pc = "failed"]
    /\ unhandled' = unhandled \cup {s}
    /\ lastEvent' = Event("fetchReject", "", s, Undefined)
    /\ UNCHANGED <<queryValue, issued, results, shown, path, rank, pressed>>

\* response.json() rejects (the body is not JSON).
JsonReject(s) ==
    /\ searches[s].pc = "awaitJson"
    /\ searches' = [searches EXCEPT ![s].pc = "failed"]
    /\ unhandled' = unhandled \cup {s}
    /\ lastEvent' = Event("jsonReject", "", s, Undefined)
    /\ UNCHANGED <<queryValue, issued, results, shown, path, rank, pressed>>

\* response.json() resolves to body: the loop and the append run to the end.
\* A body that is not iterable throws before the first iteration.
JsonResolve(s, body) ==
    /\ searches[s].pc = "awaitJson"
    /\ LET r == IF IsIterable(body)
                  THEN Loop(Iterate(body), 1,
                            [list  |-> NewList,
                             path  |-> path,
                             rank  |-> rank,
                             threw |-> FALSE])
                  ELSE [list  |-> NewList,
                        path  |-> path,
                        rank  |-> rank,
                        threw |-> TRUE]
       IN  /\ path' = r.path
           /\ rank' = r.rank
           /\ results' = AppendResult(results, r.list, r.threw)
           /\ shown' = IF r.threw THEN shown
                       ELSE Append(shown, [id |-> s, body |-> body])
           /\ searches' = [searches EXCEPT
                  ![s].pc = IF r.threw THEN "failed" ELSE "done",
                  ![s].trace = IF r.threw THEN @ ELSE Append(@, "append")]
           /\ unhandled' = IF r.threw THEN unhandled \cup {s} ELSE unhandled
           /\ lastEvent' = Event(IF r.threw THEN "renderThrow" ELSE "render",
                                 "", s, body)
    /\ UNCHANGED <<queryValue, issued, pressed>>

\* Rendering: the user leaves the input as loaded and presses keys; every
\* response body of Bodies can arrive.
Next ==
    \/ \E k \in Keys : KeyPress(k)
    \/ \E s \in 1..Len(searches) : FetchResolve(s)
    \/ \E s \in 1..Len(searches) : FetchReject(s)
    \/ \E s \in 1..Len(searches) : JsonReject(s)
    \/ \E s \in 1..Len(searches) : \E body \in Bodies : JsonResolve(s, body)

Spec == Init /\ [][Next]_vars

\* Typing: the user also edits the input between keypresses; the responses
\* are drawn from FewBodies.
NextInput ==
    \/ \E v \in Values : Input(v)
    \/ \E k \in Keys : KeyPress(k)
    \/ \E s \in 1..Len(searches) : FetchResolve(s)
    \/ \E s \in 1..Len(searches) : FetchReject(s)
    \/ \E s \in 1..Len(searches) : JsonReject(s)
    \/ \E s \in 1..Len(searches) : \E body \in FewBodies : JsonResolve(s, body)

SpecInput == Init /\ [][NextInput]_vars

\* ------------------------------------------------------------ properties
Ids == 1..Len(searches)

FailTypes == {"fetchReject", "jsonReject", "renderThrow"}

\* A body that is a sequence of [path, rank] pairs.
IsPairSeq(b) ==
    /\ b.t = "arr"
    /\ \A j \in 1..Len(b.a) : b.a[j].t = "arr" /\ Len(b.a[j].a) = 2

\* The <ul> the specification describes for a sequence of pairs.
ListOfPairs(b) ==
    [tag |-> "ul", class |-> "result-list",
     items |-> [j \in 1..Len(b.a) |-> Item(b.a[j].a[1], b.a[j].a[2])]]

\* C1: every Enter keypress issues exactly one request, POST /api/search
\* with Content-Type text/plain and the input's text as body; after n Enter
\* keypresses there are n requests and the i-th carries the i-th text.
C1_OneRequestPerEnter ==
    /\ Len(issued) = Len(pressed)
    /\ \A i \in 1..Len(issued) :
          issued[i] = [method |-> "POST", url |-> "/api/search",
                       contentType |-> "text/plain", body |-> pressed[i]]

C1_Witness ==
    /\ pressed = <<"a", "">>
    /\ Len(issued) = 2

\* C2: a body that is a sequence of [path, rank] pairs makes search append
\* exactly one <ul> to the container, whose items are the entries one to one
\* and in order (the empty sequence gives a <ul> without items).
C2_RenderInOrder ==
    [][(lastEvent'.type \in {"render", "renderThrow"}
          /\ IsPairSeq(lastEvent'.body))
        => results' = Append(results, ListOfPairs(lastEvent'.body))]_vars

C2_Witness ==
    /\ lastEvent.type = "render"
    /\ lastEvent.body = Arr(<<EntryB, EntryB>>)
    /\ results = <<ListOfPairs(Arr(<<EntryA>>)),
                   ListOfPairs(Arr(<<EntryB, EntryB>>))>>

\* C3: right after search is invoked the container has no children, and a
\* search clears before it fetches and fetches before it appends.
C3_ClearFirst ==
    /\ (lastEvent.type = "key" /\ lastEvent.key = "Enter") => results = <<>>
    /\ \A s \in Ids :
          /\ Len(issued) >= s
          /\ SubSeq(searches[s].trace, 1, 2) = <<"clear", "fetch">>
          /\ \A i \in 1..Len(searches[s].trace) :
                searches[s].trace[i] = "append" => i > 2
    /\ \A i \in 1..Len(shown) : searches[shown[i].id].pc = "done"

C3_Witness ==
    /\ lastEvent.type = "key" /\ lastEvent.key = "Enter"
    /\ Len(searches) = 2
    /\ searches[1].pc = "done"
    /\ results = <<>>

\* C4: once the responses of two overlapping searches are both rendered, the
\* container shows the rendering of the response that arrived last only.
C4_LastResponseWins ==
    (lastEvent.type = "render" /\ \A s \in Ids : searches[s].pc = "done")
        => /\ Len(results) = 1
           /\ shown[1].id = lastEvent.id

\* C5 as stated: after a search failed the container is empty.
C5_EmptyAfterFailure ==
    lastEvent.type \in FailTypes => results = <<>>

\* C5: a failing search appends nothing, so it leaves the container as it
\* was (empty, when no other search overlapped it); it fails only after the
\* keypress handler returned, as an unhandled rejection of that search.
C5_FailureAppendsNothing ==
    [][/\ lastEvent'.type \in FailTypes =>
            /\ results' = results
            /\ lastEvent'.id \in Ids /\ InFlight(lastEvent'.id)
            /\ searches'[lastEvent'.id].pc = "failed"
            /\ unhandled' = unhandled \cup {lastEvent'.id}
            /\ ~searches'[lastEvent'.id].overlap => results' = <<>>
       /\ lastEvent'.type \notin FailTypes => unhandled' = unhandled]_vars

C5_Witness ==
    /\ lastEvent.type = "fetchReject"
    /\ lastEvent.id = 2
    /\ ~searches[2].overlap
    /\ unhandled = {2}
    /\ results = <<>>

\* C6: a keypress whose key is not Enter issues no request and changes
\* neither the searches nor the container.
C6_OtherKeysIgnored ==
    [][(lastEvent'.type = "key" /\ lastEvent'.key # "Enter")
        => UNCHANGED <<issued, searches, results, shown, path, rank,
                       unhandled, queryValue>>]_vars

C6_Witness ==
    /\ lastEvent.type = "key" /\ lastEvent.key = "a"
    /\ Len(searches) = 2
    /\ searches[1].pc = "awaitJson"
    /\ searches[2].pc = "done"
    /\ results # <<>>

\* C7 as stated: while the latest search awaits its response the container
\* is empty.
C7_HungLeavesEmpty ==
    (searches # <<>> /\ searches[Len(searches)].pc = "awaitFetch")
        => results = <<>>

\* C7: while the latest search awaits its response, and no earlier search
\* was still in flight when it was triggered, the container is empty and no
\* failure is reported for it.
C7_HungAloneLeavesEmpty ==
    (/\ searches # <<>>
     /\ searches[Len(searches)].pc = "awaitFetch"
     /\ ~searches[Len(searches)].overlap)
        => /\ results = <<>>
           /\ Len(searches) \notin unhandled

C7_Witness ==
    /\ Len(searches) = 2
    /\ searches[1].pc = "done"
    /\ searches[2].pc = "awaitFetch"
    /\ ~searches[2].overlap
    /\ lastEvent.type = "key" /\ lastEvent.key = "a"
    /\ results = <<>>

\* C8 as stated: at most one search awaits its response.
C8_SingleInFlight ==
    Cardinality({s \in Ids : searches[s].pc = "awaitFetch"}) <= 1

\* C8: every search issues exactly one request, and the searches awaiting a
\* response are at most as many as the Enter keypresses.
C8_OneRequestPerSearch ==
    /\ Len(issued) = Len(searches)
    /\ Cardinality({s \in Ids : InFlight(s)}) <= Len(pressed)

C8_Witness ==
    /\ Len(searches) = 2
    /\ \A s \in Ids : searches[s].pc = "awaitFetch"

\* C9: a response whose iteration throws appends no list, and every <ul> in
\* the container holds one item per entry of the response it came from.
C9_AllOrNothing ==
    /\ Len(results) = Len(shown)
    /\ \A i \in 1..Len(results) :
          /\ IsIterable(shown[i].body)
          /\ Len(results[i].items) = Len(Iterate(shown[i].body))
          /\ \A e \in 1..Len(results[i].items) :
                IsIterable(Iterate(shown[i].body)[e])
    /\ lastEvent.type = "renderThrow" =>
          \A i \in 1..Len(shown) : shown[i].id # lastEvent.id

C9_Witness ==
    /\ lastEvent.type = "renderThrow"
    /\ lastEvent.body = Arr(<<EntryA, EntryBad>>)
    /\ path = Str(<<"a">>)
    /\ Len(results) = 1
    /\ shown[1].body = Arr(<<EntryB, EntryB>>)

\* C10: every item of a <ul> in the container carries the path and rank of
\* an entry of the response of the search that appended it, although path
\* and rank are globals shared by overlapping searches.
C10_OwnEntries ==
    \A i \in 1..Len(shown) :
        /\ i <= Len(results)
        /\ \A j \in 1..Len(results[i].items) :
              \E e \in 1..Len(Iterate(shown[i].body)) :
                 LET it == Iterate(Iterate(shown[i].body)[e])
                 IN  /\ results[i].items[j][1].text
                          = ToString(NthOrUndefined(it, 1))
                     /\ results[i].items[j][3].text
                          = ToString(NthOrUndefined(it, 2))

C10_Witness ==
    /\ Len(results) = 2
    /\ shown[1].id = 2 /\ shown[2].id = 1
    /\ searches[1].overlap /\ searches[2].overlap
    /\ shown[1].body = Arr(<<EntryA, EntryB>>)
    /\ shown[2].body = Arr(<<EntryB>>)
    /\ rank = Num(10)

=============================================================================
